---- MODULE Spec2Model ----
(***************************************************************************)
(* State-machine model of the Revvy robot framework core:                  *)
(*   - FunctionAggregator, PortDriver, PortHandler, PortInstance           *)
(*     (src/revvy/robot/ports/common.py)                                   *)
(*   - DifferentialDrivetrain (src/revvy/robot/drivetrain.py)              *)
(*   - clip (src/utils.py)                                                 *)
(* AwaiterImpl, Stopwatch, rpm2dps and the motor drivers are imported by   *)
(* these files but are not part of the sources at hand; they are modelled  *)
(* from the specification (one-shot latched awaiter, elapsed-time          *)
(* stopwatch, rpm * 6).                                                    *)
(*                                                                         *)
(* Every handler is one atomic action.  A handler is written as a pure     *)
(* operator on the record s of all program fields, so that nested calls    *)
(* compose as in the code; a raised exception is the field s.exc, and a    *)
(* handler that raised leaves the fields as they were at the raise.        *)
(***************************************************************************)
EXTENDS Integers, Sequences, FiniteSets, TLC

VARIABLES
    driver,                \* PortInstance._driver, per port
    cfgSubs,               \* PortInstance._config_changed_callbacks._callbacks
    stSubs,                \* PortDriver._on_status_changed._callbacks of the port's own driver
    defSubs,               \* the same list of the handler's one default driver
    status,                \* motor status reported by the port's driver
    motors,                \* DifferentialDrivetrain._motors
    left,                  \* DifferentialDrivetrain._left_motors
    right,                 \* DifferentialDrivetrain._right_motors
    awaiter,               \* DifferentialDrivetrain._awaiter (0 is None)
    update_callback,       \* DifferentialDrivetrain._update_callback
    target_angle,          \* DifferentialDrivetrain._target_angle
    max_turn_wheel_speed,  \* DifferentialDrivetrain._max_turn_wheel_speed
    max_turn_power,        \* DifferentialDrivetrain._max_turn_power
    last_yaw_angle,        \* DifferentialDrivetrain._last_yaw_angle
    sw,                    \* DifferentialDrivetrain._last_yaw_change_time.elapsed
    yaw,                   \* IMU.yaw_angle
    aws,                   \* the AwaiterImpl objects that can still act
    trace,                 \* calls made on collaborators by the last handler
    exc,                   \* exception the last handler raised to its caller
    op,                    \* the last handler
    fin,                   \* the timer thread inside awaiter.finish: position, awaiter
    can,                   \* the application thread inside _cancel_awaiter: position, awaiter
    upd,                   \* the status thread inside an update handler: position, local
                           \* awaiter, reporting motor
    _buttonData,           \* RevvyApp._buttonData, by channel
    _analogData,           \* RevvyApp._analogData, by channel
    _missedKeepAlives,     \* RevvyApp._missedKeepAlives
    event,                 \* RevvyApp.event is set
    main,                  \* the thread inside RevvyApp.handle: position, value read,
                           \* comm_missing
    watch,                 \* the last _checkKeepAlive result; keep-alives and checks so far
    updates,               \* number of input updates received
    _stop,                 \* RevvyApp._stop
    _isConnected           \* RevvyApp._isConnected

vars == <<driver, cfgSubs, stSubs, defSubs, status, motors, left, right,
          awaiter, update_callback, target_angle, max_turn_wheel_speed,
          max_turn_power, last_yaw_angle, sw, yaw, aws, trace, exc, op, fin, can,
          upd, _buttonData, _analogData, _missedKeepAlives, event, main, watch,
          updates, _stop, _isConnected>>

robotVars == <<driver, cfgSubs, stSubs, defSubs, status, motors, left, right,
               awaiter, update_callback, target_angle, max_turn_wheel_speed,
               max_turn_power, last_yaw_angle, sw, yaw, aws, trace, exc, fin,
               can, upd>>

appVars == <<_buttonData, _analogData, _missedKeepAlives, event, main, watch,
             updates, _stop, _isConnected>>

----------------------------------------------------------------------------
(* Bounds of the model *)

NPorts == 2
MaxAwaiters == 2
MaxSubs == 1
MaxYaw == 1
MaxCallbacks == 3
MaxMotors == 3
MaxUpdates == 3

(* Program constants *)

Kp == 10
StallSeconds == 3
max_rpm == 150
FullTurn == 360
NButtons == 32
NAnalog == 10
MissedLimit == 3

Ports == 1..NPorts
ElapsedValues == {0, StallSeconds, StallSeconds + 1}
YawValues == 0..MaxYaw
TurnAngles == {0, 1}
WheelSpeeds == {-5, 5}
NoneV == "None"
MotorStatus == {"Normal", "GoalReached", "Blocked"}
Drivers == {"DcMotor"}
ConfigNames == {"DcMotor", "Unknown"}

----------------------------------------------------------------------------
(* Helpers on sequences: Python list operations *)

RECURSIVE IndexOf(_, _, _)
IndexOf(seq, x, i) ==
    IF i > Len(seq) THEN 0
    ELSE IF seq[i] = x THEN i
    ELSE IndexOf(seq, x, i + 1)

Contains(seq, x) == IndexOf(seq, x, 1) # 0

Count(seq, x) == Cardinality({i \in 1..Len(seq) : seq[i] = x})

ListRemoveAt(seq, k) ==
    [i \in 1..(Len(seq) - 1) |-> IF i < k THEN seq[i] ELSE seq[i + 1]]

ListRemoveSuppress(seq, x) ==
    IF Contains(seq, x) THEN ListRemoveAt(seq, IndexOf(seq, x, 1)) ELSE seq

abs(x) == IF x < 0 THEN -x ELSE x

clip(x, min_x, max_x) ==
    IF x < min_x THEN min_x
    ELSE IF x > max_x THEN max_x
    ELSE x

rpm2dps(rpm) == rpm * 6

----------------------------------------------------------------------------
(* The record of all program fields, and the calls a handler makes on its  *)
(* collaborators (hardware interface, subscribers), in call order.         *)

Cur ==
    [driver |-> driver, cfgSubs |-> cfgSubs, stSubs |-> stSubs,
     defSubs |-> defSubs, status |-> status, motors |-> motors,
     left |-> left, right |-> right, awaiter |-> awaiter,
     update_callback |-> update_callback, target_angle |-> target_angle,
     max_turn_wheel_speed |-> max_turn_wheel_speed,
     max_turn_power |-> max_turn_power, last_yaw_angle |-> last_yaw_angle,
     sw |-> sw, yaw |-> yaw, aws |-> aws, trace |-> <<>>, exc |-> "none",
     ret |-> "None", failing |-> "none", fin |-> fin, can |-> can, upd |-> upd]

Event(e, p, sub, cfg, cmds) ==
    [ev |-> e, port |-> p, sub |-> sub, cfg |-> cfg, cmds |-> cmds]

Emit(s, e) == [s EXCEPT !.trace = Append(@, e)]

Raise(s, e) == [s EXCEPT !.exc = e]

Command(p, kind, v, speed, limit) ==
    [port |-> p, kind |-> kind, v |-> v, speed |-> speed, limit |-> limit]

(* RevvyControl.set_motor_port_control_value(commands), called by `by`.    *)
(* s.failing says which calls the hardware interface fails during the      *)
(* handler: none, the speed and position commands, or any call.            *)
set_motor_port_control_value(s, by, cmds) ==
    IF s.failing = "any" \/ (s.failing = "command" /\ by # "_apply_release")
    THEN Raise(Emit(s, Event("hw_failed", 0, by, "", cmds)), "CommunicationError")
    ELSE Emit(s, Event("hw", 0, by, "", cmds))

----------------------------------------------------------------------------
(* AwaiterImpl: a one-shot token.  finish and cancel act only on a Pending *)
(* awaiter; they run the callbacks registered for the state entered, once, *)
(* in registration order.  The transition itself is recorded in the trace  *)
(* ("cancelled" / "finished" with the kind of the awaiter).                *)

_apply_release(s) ==
    LET group == s.left \o s.right
    IN  set_motor_port_control_value(s, "_apply_release",
            [i \in 1..Len(group) |-> Command(group[i], "power", 0, NoneV, NoneV)])

TimerCancel(s, a) ==
    Emit(IF s.aws[a].timer = "armed" THEN [s EXCEPT !.aws[a].timer = "cancelled"] ELSE s,
         Event("timer_cancel", 0, "", "", <<>>))

RECURSIVE RunCallbacks(_, _, _, _)
RunCallbacks(s, a, cbs, i) ==
    IF i > Len(cbs) \/ s.exc # "none" THEN s
    ELSE RunCallbacks(
            IF cbs[i] = "t.cancel" THEN TimerCancel(s, a) ELSE _apply_release(s),
            a, cbs, i + 1)

AwaiterCancel(s, a) ==
    IF s.aws[a].state = "Pending"
    THEN RunCallbacks(Emit([s EXCEPT !.aws[a].state = "Cancelled"],
                           Event("cancelled", 0, s.aws[a].kind, "", <<>>)),
                      a, s.aws[a].onCancelled, 1)
    ELSE s

AwaiterFinish(s, a) ==
    IF s.aws[a].state = "Pending"
    THEN RunCallbacks(Emit([s EXCEPT !.aws[a].state = "Finished"],
                           Event("finished", 0, s.aws[a].kind, "", <<>>)),
                      a, s.aws[a].onResult, 1)
    ELSE s

(* AwaiterImpl() followed by the on_cancelled / on_result registrations *)
NewAwaiter(s, kind, timer, onCancelled, onResult) ==
    [s EXCEPT !.aws = Append(@, [state |-> "Pending", kind |-> kind, timer |-> timer,
                                 onCancelled |-> onCancelled, onResult |-> onResult])]

----------------------------------------------------------------------------
(* DifferentialDrivetrain *)

(* Variant: the held awaiter is dropped without being cancelled *)
_cancel_awaiter_drops(s) == [s EXCEPT !.awaiter = 0]

_cancel_awaiter(s) ==
    LET a == s.awaiter
        s1 == [s EXCEPT !.awaiter = 0]
    IN  IF a # 0 THEN AwaiterCancel(s1, a) ELSE s1

stop_release(s) ==
    LET s1 == _cancel_awaiter(s)
    IN  IF s1.exc # "none" THEN s1 ELSE _apply_release(s1)

(* Variant: the goal test looks at the reporting motor only *)
_update_move_changed_only(s, changed_motor) ==
    LET a == s.awaiter
    IN  IF a # 0
        THEN IF s.status[changed_motor] = "Blocked"
             THEN AwaiterCancel(s, a)
             ELSE IF s.status[changed_motor] = "GoalReached"
                  THEN AwaiterFinish(s, a)
                  ELSE s
        ELSE IF s.status[changed_motor] = "Blocked"
             THEN stop_release(s)
             ELSE s

(* Variant: a Blocked report is ignored while an awaiter is held *)
_update_move_ignores_blocked(s, changed_motor) ==
    LET a == s.awaiter
    IN  IF a # 0
        THEN IF \A i \in 1..Len(s.motors) : s.status[s.motors[i]] = "GoalReached"
             THEN AwaiterFinish(s, a)
             ELSE s
        ELSE IF s.status[changed_motor] = "Blocked"
             THEN stop_release(s)
             ELSE s

(* Variant: without an awaiter a Blocked report is ignored *)
_update_move_idle_ignores(s, changed_motor) ==
    LET a == s.awaiter
    IN  IF a # 0
        THEN IF s.status[changed_motor] = "Blocked"
             THEN AwaiterCancel(s, a)
             ELSE IF \A i \in 1..Len(s.motors) : s.status[s.motors[i]] = "GoalReached"
                  THEN AwaiterFinish(s, a)
                  ELSE s
        ELSE s

_update_move(s, changed_motor) ==
    LET a == s.awaiter
    IN  IF a # 0
        THEN IF s.status[changed_motor] = "Blocked"
             THEN AwaiterCancel(s, a)
             ELSE IF \A i \in 1..Len(s.motors) : s.status[s.motors[i]] = "GoalReached"
                  THEN AwaiterFinish(s, a)
                  ELSE s
        ELSE IF s.status[changed_motor] = "Blocked"
             THEN stop_release(s)
             ELSE s

_apply_speeds(s, l, r, power_limit) ==
    set_motor_port_control_value(s, "_apply_speeds",
        [i \in 1..(Len(s.left) + Len(s.right)) |->
            IF i <= Len(s.left)
            THEN Command(s.left[i], "speed", l, NoneV, power_limit)
            ELSE Command(s.right[i - Len(s.left)], "speed", r, NoneV, power_limit)])

set_speeds(s, l, r, power_limit) ==
    LET s1 == _cancel_awaiter(s)
    IN  IF s1.exc # "none" THEN s1
        ELSE _apply_speeds([s1 EXCEPT !.update_callback = "_update_move"], l, r, power_limit)

(* Variant: the sides are exchanged *)
_update_turn_speed_swapped(s) ==
    LET error == s.target_angle - s.yaw
        p == clip(error * Kp, -s.max_turn_wheel_speed, s.max_turn_wheel_speed)
    IN  _apply_speeds(s, p, -p, s.max_turn_power)

_update_turn_speed(s) ==
    LET error == s.target_angle - s.yaw
        p == clip(error * Kp, -s.max_turn_wheel_speed, s.max_turn_wheel_speed)
    IN  _apply_speeds(s, -p, p, s.max_turn_power)

(* Variant: the yaw angle is looked at before the status of the motor *)
_update_turn_yaw_first(s, changed_motor) ==
    LET a == s.awaiter
        uninstalled == [s EXCEPT !.update_callback = "None"]
        _cancel(t) == IF a # 0 THEN AwaiterCancel(t, a) ELSE stop_release(t)
        _goal_reached(t) == IF a # 0 THEN AwaiterFinish(t, a) ELSE stop_release(t)
    IN  IF s.last_yaw_angle # s.yaw
        THEN LET s1 == [s EXCEPT !.last_yaw_angle = s.yaw, !.sw = 0]
             IN  IF abs(s1.target_angle - s1.yaw) < 1
                 THEN _goal_reached([s1 EXCEPT !.update_callback = "None"])
                 ELSE _update_turn_speed(s1)
        ELSE IF s.status[changed_motor] = "Blocked" \/ s.sw > StallSeconds
             THEN _cancel(uninstalled)
             ELSE s

(* Variant: the stall test fires at the limit itself *)
_update_turn_at_limit(s, changed_motor) ==
    LET a == s.awaiter
        uninstalled == [s EXCEPT !.update_callback = "None"]
        _cancel(t) == IF a # 0 THEN AwaiterCancel(t, a) ELSE stop_release(t)
        _goal_reached(t) == IF a # 0 THEN AwaiterFinish(t, a) ELSE stop_release(t)
    IN  IF s.status[changed_motor] = "Blocked"
        THEN _cancel(uninstalled)
        ELSE IF s.last_yaw_angle # s.yaw
             THEN LET s1 == [s EXCEPT !.last_yaw_angle = s.yaw, !.sw = 0]
                  IN  IF abs(s1.target_angle - s1.yaw) < 1
                      THEN _goal_reached([s1 EXCEPT !.update_callback = "None"])
                      ELSE _update_turn_speed(s1)
             ELSE IF s.sw >= StallSeconds
                  THEN _cancel(uninstalled)
                  ELSE s

_update_turn(s, changed_motor) ==
    LET a == s.awaiter
        uninstalled == [s EXCEPT !.update_callback = "None"]
        _cancel(t) == IF a # 0 THEN AwaiterCancel(t, a) ELSE stop_release(t)
        _goal_reached(t) == IF a # 0 THEN AwaiterFinish(t, a) ELSE stop_release(t)
    IN  IF s.status[changed_motor] = "Blocked"
        THEN _cancel(uninstalled)
        ELSE IF s.last_yaw_angle # s.yaw
             THEN LET s1 == [s EXCEPT !.last_yaw_angle = s.yaw, !.sw = 0]
                  IN  IF abs(s1.target_angle - s1.yaw) < 1
                      THEN _goal_reached([s1 EXCEPT !.update_callback = "None"])
                      ELSE _update_turn_speed(s1)
             ELSE IF s.sw > StallSeconds
                  THEN _cancel(uninstalled)
                  ELSE s

turn_impl(s, turn_angle, wheel_speed, power_limit) ==
    LET s1 == _cancel_awaiter(s)
        s2 == [s1 EXCEPT !.max_turn_wheel_speed = wheel_speed,
                         !.max_turn_power = power_limit,
                         !.target_angle = turn_angle + s1.yaw,
                         !.sw = 0,
                         !.last_yaw_angle = s1.yaw]
        s3 == NewAwaiter(s2, "turn", "none", <<"release">>, <<"release">>)
        s4 == [s3 EXCEPT !.awaiter = Len(s3.aws), !.update_callback = "_update_turn"]
    IN  IF s1.exc # "none" THEN s1 ELSE _update_turn_speed(s4)

(* Variant: the position command is sent before the awaiter is installed *)
move_commands_first(s, l, r, left_speed, right_speed, power_limit) ==
    LET s1 == _cancel_awaiter(s)
        commands ==
            [i \in 1..(Len(s1.left) + Len(s1.right)) |->
                IF i <= Len(s1.left)
                THEN Command(s1.left[i], "position", l, left_speed, power_limit)
                ELSE Command(s1.right[i - Len(s1.left)], "position", r, right_speed, power_limit)]
        s2 == set_motor_port_control_value(s1, "move", commands)
        s3 == NewAwaiter(s2, "move", "none", <<"release">>, <<"release">>)
    IN  IF s1.exc # "none" THEN s1
        ELSE IF s2.exc # "none" THEN s2
        ELSE [s3 EXCEPT !.awaiter = Len(s3.aws), !.update_callback = "_update_move"]

move(s, l, r, left_speed, right_speed, power_limit) ==
    LET s1 == _cancel_awaiter(s)
        commands ==
            [i \in 1..(Len(s1.left) + Len(s1.right)) |->
                IF i <= Len(s1.left)
                THEN Command(s1.left[i], "position", l, left_speed, power_limit)
                ELSE Command(s1.right[i - Len(s1.left)], "position", r, right_speed, power_limit)]
        s2 == NewAwaiter(s1, "move", "none", <<"release">>, <<"release">>)
        s3 == [s2 EXCEPT !.awaiter = Len(s2.aws), !.update_callback = "_update_move"]
    IN  IF s1.exc # "none" THEN s1 ELSE set_motor_port_control_value(s3, "move", commands)

(* Variant: the release is registered before the cancellation of the timer *)
_create_timer_awaiter_release_first(s) ==
    LET s1 == NewAwaiter(s, "timer", "armed", <<"release", "t.cancel">>, <<"release">>)
    IN  [s1 EXCEPT !.awaiter = Len(s1.aws)]

_create_timer_awaiter(s) ==
    LET s1 == NewAwaiter(s, "timer", "armed", <<"t.cancel", "release">>, <<"release">>)
    IN  [s1 EXCEPT !.awaiter = Len(s1.aws)]

Multiplier(direction) == IF direction = "DIRECTION_FWD" THEN 1 ELSE -1

(* Variant: the units are checked before the outstanding awaiter is cancelled *)
drive_validates_first(s, direction, rotation, unit_rotation, speed, unit_speed) ==
    LET s1 == _cancel_awaiter(s)
        m == Multiplier(direction)
    IN  IF unit_rotation \notin {"UNIT_ROT", "UNIT_SEC"}
           \/ unit_speed \notin {"UNIT_SPEED_RPM", "UNIT_SPEED_PWR"}
        THEN Raise(s, "ValueError")
        ELSE IF s1.exc # "none" THEN s1
        ELSE IF unit_rotation = "UNIT_ROT"
        THEN IF unit_speed = "UNIT_SPEED_RPM"
             THEN move(s1, FullTurn * rotation * m, FullTurn * rotation * m,
                       rpm2dps(speed), rpm2dps(speed), NoneV)
             ELSE move(s1, FullTurn * rotation * m, FullTurn * rotation * m,
                       NoneV, NoneV, speed)
        ELSE LET s2 == IF unit_speed = "UNIT_SPEED_RPM"
                       THEN set_speeds(s1, rpm2dps(speed) * m, rpm2dps(speed) * m, NoneV)
                       ELSE set_speeds(s1, rpm2dps(max_rpm) * m, rpm2dps(max_rpm) * m, speed)
             IN  IF s2.exc # "none" THEN s2 ELSE _create_timer_awaiter(s2)

drive(s, direction, rotation, unit_rotation, speed, unit_speed) ==
    LET s1 == _cancel_awaiter(s)
        m == Multiplier(direction)
    IN  IF s1.exc # "none" THEN s1
        ELSE IF unit_rotation = "UNIT_ROT"
        THEN IF unit_speed = "UNIT_SPEED_RPM"
             THEN move(s1, FullTurn * rotation * m, FullTurn * rotation * m,
                       rpm2dps(speed), rpm2dps(speed), NoneV)
             ELSE IF unit_speed = "UNIT_SPEED_PWR"
             THEN move(s1, FullTurn * rotation * m, FullTurn * rotation * m,
                       NoneV, NoneV, speed)
             ELSE Raise(s1, "ValueError")
        ELSE IF unit_rotation = "UNIT_SEC"
        THEN LET s2 == IF unit_speed = "UNIT_SPEED_RPM"
                       THEN set_speeds(s1, rpm2dps(speed) * m, rpm2dps(speed) * m, NoneV)
                       ELSE IF unit_speed = "UNIT_SPEED_PWR"
                       THEN set_speeds(s1, rpm2dps(max_rpm) * m, rpm2dps(max_rpm) * m, speed)
                       ELSE Raise(s1, "ValueError")
             IN  IF s2.exc # "none" THEN s2 ELSE _create_timer_awaiter(s2)
        ELSE Raise(s1, "ValueError")

turn(s, direction, rotation, unit_rotation, speed, unit_speed) ==
    LET s1 == _cancel_awaiter(s)
        left_multiplier == IF direction = "DIRECTION_LEFT" THEN -1 ELSE 1
        right_multiplier == IF direction = "DIRECTION_LEFT" THEN 1 ELSE -1
        turn_multiplier == IF direction = "DIRECTION_LEFT" THEN 1 ELSE -1
        power == IF unit_speed = "UNIT_SPEED_RPM" THEN NoneV ELSE speed
        speed1 == IF unit_speed = "UNIT_SPEED_RPM" THEN speed ELSE max_rpm
    IN  IF s1.exc # "none" THEN s1
        ELSE IF unit_speed \notin {"UNIT_SPEED_RPM", "UNIT_SPEED_PWR"}
        THEN Raise(s1, "ValueError")
        ELSE IF unit_rotation = "UNIT_SEC"
        THEN LET s2 == set_speeds(s1, rpm2dps(speed1) * left_multiplier,
                                  rpm2dps(speed1) * right_multiplier, power)
             IN  IF s2.exc # "none" THEN s2 ELSE _create_timer_awaiter(s2)
        ELSE IF unit_rotation = "UNIT_TURN_ANGLE"
        THEN turn_impl(s1, rotation * turn_multiplier, rpm2dps(speed1), power)
        ELSE Raise(s1, "ValueError")


(* motor.on_status_changed: PortInstance.__getattr__ delegates to the bound *)
(* driver; every port left unconfigured shares the handler's default driver *)
StatusCallbacks(s, p) ==
    IF s.driver[p] = "Default" THEN s.defSubs ELSE s.stSubs[p]

WithStatusCallbacks(s, p, cbs) ==
    IF s.driver[p] = "Default"
    THEN [s EXCEPT !.defSubs = cbs]
    ELSE [s EXCEPT !.stSubs[p] = cbs]

(* Variant: the removal of a motor ends the motion in progress *)
_on_motor_config_changed_cancels(s, motor) ==
    IF ~Contains(s.motors, motor)
    THEN Raise(s, "ValueError")
    ELSE stop_release([s EXCEPT !.motors = ListRemoveAt(@, IndexOf(@, motor, 1)),
                                !.left = ListRemoveSuppress(@, motor),
                                !.right = ListRemoveSuppress(@, motor)])

(* Variant: the motor stays in the right group *)
_on_motor_config_changed_keeps_right(s, motor) ==
    IF ~Contains(s.motors, motor)
    THEN Raise(s, "ValueError")
    ELSE [s EXCEPT !.motors = ListRemoveAt(@, IndexOf(@, motor, 1)),
                   !.left = ListRemoveSuppress(@, motor)]

_on_motor_config_changed(s, motor) ==
    IF ~Contains(s.motors, motor)
    THEN Raise(s, "ValueError")
    ELSE [s EXCEPT !.motors = ListRemoveAt(@, IndexOf(@, motor, 1)),
                   !.left = ListRemoveSuppress(@, motor),
                   !.right = ListRemoveSuppress(@, motor)]

_on_motor_status_changed(s, motor) ==
    IF s.update_callback = "_update_move" THEN _update_move(s, motor)
    ELSE IF s.update_callback = "_update_turn" THEN _update_turn(s, motor)
    ELSE s

RECURSIVE ResetUnsubscribe(_, _)
ResetUnsubscribe(s, i) ==
    IF i > Len(s.motors) \/ s.exc # "none" THEN s
    ELSE LET motor == s.motors[i]
         IN  IF s.driver[motor] = "None"
             THEN Raise(s, "AttributeError")
             ELSE ResetUnsubscribe(
                    [WithStatusCallbacks(s, motor,
                        ListRemoveSuppress(StatusCallbacks(s, motor), "drivetrain"))
                     EXCEPT !.cfgSubs[motor] = ListRemoveSuppress(@, "drivetrain")],
                    i + 1)

reset(s) ==
    LET s1 == _cancel_awaiter(s)
        s2 == IF s1.exc # "none" THEN s1 ELSE ResetUnsubscribe(s1, 1)
    IN  IF s2.exc # "none" THEN s2
        ELSE [s2 EXCEPT !.motors = <<>>, !.left = <<>>, !.right = <<>>]

_add_motor(s, motor) ==
    LET s1 == [s EXCEPT !.motors = Append(@, motor)]
    IN  IF s1.driver[motor] = "None"
        THEN Raise(s1, "AttributeError")
        ELSE [WithStatusCallbacks(s1, motor, Append(StatusCallbacks(s1, motor), "drivetrain"))
              EXCEPT !.cfgSubs[motor] = Append(@, "drivetrain")]

add_left_motor(s, motor) == _add_motor([s EXCEPT !.left = Append(@, motor)], motor)

(* Variant: the motor joins the right group only *)
add_right_motor_group_only(s, motor) == [s EXCEPT !.right = Append(@, motor)]

add_right_motor(s, motor) == _add_motor([s EXCEPT !.right = Append(@, motor)], motor)

----------------------------------------------------------------------------
(* FunctionAggregator.__call__ over the two registries of a port: the      *)
(* callbacks run in list order and the first one that raises ends the loop *)

(* FunctionAggregator.remove on the config-changed registry of port p *)
FunctionAggregator_remove(s, p, callback) ==
    [s EXCEPT !.cfgSubs[p] = ListRemoveSuppress(@, callback)]

(* Variant: the loop goes on after a callback has raised *)
RECURSIVE CallConfigChanged_keeps_going(_, _, _, _)
CallConfigChanged_keeps_going(s, p, config, i) ==
    IF i > Len(s.cfgSubs[p]) THEN s
    ELSE LET sub == s.cfgSubs[p][i]
             s1 == Emit(s, Event("notify", p, sub, config, <<>>))
             s2 == IF sub = "drivetrain" THEN _on_motor_config_changed(s1, p)
                   ELSE IF sub = "raiser" THEN Raise(s1, "CallbackError")
                   ELSE IF sub = "once" THEN FunctionAggregator_remove(s1, p, "once")
                   ELSE s1
         IN  CallConfigChanged_keeps_going(s2, p, config, i + 1)

(* The for loop over self._callbacks reads the list by position, also when *)
(* a callback has changed it: "once" is a callback that unsubscribes       *)
(* itself when it is called                                                *)
RECURSIVE CallConfigChanged(_, _, _, _)
CallConfigChanged(s, p, config, i) ==
    IF i > Len(s.cfgSubs[p]) THEN s
    ELSE LET sub == s.cfgSubs[p][i]
             s1 == Emit(s, Event("notify", p, sub, config, <<>>))
             s2 == IF sub = "drivetrain" THEN _on_motor_config_changed(s1, p)
                   ELSE IF sub = "raiser" THEN Raise(s1, "CallbackError")
                   ELSE IF sub = "once" THEN FunctionAggregator_remove(s1, p, "once")
                   ELSE s1
         IN  IF s2.exc # "none" THEN s2 ELSE CallConfigChanged(s2, p, config, i + 1)

RECURSIVE CallStatusChanged(_, _, _)
CallStatusChanged(s, p, i) ==
    IF i > Len(StatusCallbacks(s, p)) THEN s
    ELSE LET sub == StatusCallbacks(s, p)[i]
             s2 == IF sub = "drivetrain"
                   THEN _on_motor_status_changed(s, p)
                   ELSE Emit(s, Event("status", p, sub, "", <<>>))
         IN  IF s2.exc # "none" THEN s2 ELSE CallStatusChanged(s2, p, i + 1)

(* PortDriver.uninitialize of the driver bound to port p *)
uninitialize(s, p) ==
    Emit(WithStatusCallbacks(s, p, <<>>), Event("uninitialize", p, "", s.driver[p], <<>>))

(* PortHandler.configure_port; the driver it returns is s.ret *)
configure_port(s, p, config) ==
    LET found == IF config = NoneV THEN "Default" ELSE config
        s1 == Emit(s, Event("set_port_type", p, "", found, <<>>))
        s2 == Emit(s1, Event("on_port_type_set", p, "", found, <<>>))
    IN  IF config # NoneV /\ config \notin Drivers
        THEN Raise(s, "KeyError")
        ELSE [s2 EXCEPT !.ret = found]

(* Variant: the port type is programmed before the first notification *)
configure_programs_first(s, p, config) ==
    LET s0 == IF s.driver[p] # "None" THEN uninitialize(s, p) ELSE s
        s3 == configure_port(s0, p, config)
        s4 == Emit(IF s3.ret = "Default"
                   THEN [s3 EXCEPT !.driver[p] = "Default"]
                   ELSE [s3 EXCEPT !.driver[p] = s3.ret, !.stSubs[p] = <<>>,
                                   !.status[p] = "Normal"],
                   Event("bind", p, "", s3.ret, <<>>))
        s5 == CallConfigChanged(Emit(s4, Event("config_changed", p, "", NoneV, <<>>)),
                                p, NoneV, 1)
    IN  IF s3.exc # "none" THEN s3
        ELSE IF s5.exc # "none" THEN s5
        ELSE CallConfigChanged(Emit(s5, Event("config_changed", p, "", config, <<>>)),
                               p, config, 1)

(* Variant: the old driver is torn down after the new one is bound *)
configure_tears_down_last(s, p, config) ==
    LET s1 == CallConfigChanged(Emit(s, Event("config_changed", p, "", NoneV, <<>>)),
                                p, NoneV, 1)
        s3 == configure_port(s1, p, config)
        s4 == Emit(IF s3.ret = "Default"
                   THEN [s3 EXCEPT !.driver[p] = "Default"]
                   ELSE [s3 EXCEPT !.driver[p] = s3.ret, !.stSubs[p] = <<>>,
                                   !.status[p] = "Normal"],
                   Event("bind", p, "", s3.ret, <<>>))
        s5 == IF s1.driver[p] # "None"
              THEN Emit(s4, Event("uninitialize", p, "", s1.driver[p], <<>>))
              ELSE s4
    IN  IF s1.exc # "none" THEN s1
        ELSE IF s3.exc # "none" THEN s3
        ELSE CallConfigChanged(Emit(s5, Event("config_changed", p, "", config, <<>>)),
                               p, config, 1)

(* PortInstance.configure *)
configure(s, p, config) ==
    LET s1 == CallConfigChanged(Emit(s, Event("config_changed", p, "", NoneV, <<>>)),
                                p, NoneV, 1)
        s2 == IF s1.driver[p] # "None" THEN uninitialize(s1, p) ELSE s1
        s3 == configure_port(s2, p, config)
        s4 == Emit(IF s3.ret = "Default"
                   THEN [s3 EXCEPT !.driver[p] = "Default"]
                   ELSE [s3 EXCEPT !.driver[p] = s3.ret, !.stSubs[p] = <<>>,
                                   !.status[p] = "Normal"],
                   Event("bind", p, "", s3.ret, <<>>))
    IN  IF s1.exc # "none" THEN s1
        ELSE IF s3.exc # "none" THEN s3
        ELSE CallConfigChanged(Emit(s4, Event("config_changed", p, "", config, <<>>)),
                               p, config, 1)

(* PortInstance.uninitialize *)
port_uninitialize(s, p) == configure(s, p, NoneV)

(* PortHandler.reset: the ports in index order; an exception ends the loop *)
RECURSIVE PortHandler_reset(_, _)
PortHandler_reset(s, i) ==
    IF i > NPorts \/ s.exc # "none" THEN s
    ELSE PortHandler_reset(port_uninitialize(s, i), i + 1)

----------------------------------------------------------------------------
(* The state machine *)

Init ==
    /\ driver = [p \in Ports |-> "None"]
    /\ cfgSubs = [p \in Ports |-> <<>>]
    /\ stSubs = [p \in Ports |-> <<>>]
    /\ defSubs = <<>>
    /\ status = [p \in Ports |-> "Normal"]
    /\ motors = <<>>
    /\ left = <<>>
    /\ right = <<>>
    /\ awaiter = 0
    /\ update_callback = "None"
    /\ target_angle = 0
    /\ max_turn_wheel_speed = 0
    /\ max_turn_power = NoneV
    /\ last_yaw_angle = 0
    /\ sw = 0
    /\ yaw = 0
    /\ aws = <<>>
    /\ trace = <<>>
    /\ exc = "none"
    /\ op = "init"
    /\ fin = [pc |-> "idle", a |-> 0]
    /\ can = [pc |-> "idle", a |-> 0]
    /\ upd = [pc |-> "idle", a |-> 0, motor |-> 0]
    /\ _buttonData = [c \in 0..(NButtons - 1) |-> FALSE]
    /\ _analogData = [c \in 0..(NAnalog - 1) |-> 128]
    /\ _missedKeepAlives = 0
    /\ event = FALSE
    /\ main = [pc |-> "setup", m |-> 0, comm_missing |-> TRUE]
    /\ watch = [ret |-> "None", seen |-> FALSE, since |-> 0]
    /\ updates = 0
    /\ _stop = FALSE
    /\ _isConnected = FALSE

(* An awaiter that is terminal, that the drivetrain does not hold and whose *)
(* timer is not running can neither act nor be acted on: finish and cancel *)
(* do nothing on it.  Such awaiters are dropped from aws after each        *)
(* handler, and the index held in _awaiter follows the renumbering.        *)
Live(s, i) ==
    \/ s.aws[i].state = "Pending"
    \/ s.aws[i].timer = "armed"
    \/ i = s.awaiter
    \/ i = s.fin.a
    \/ i = s.can.a
    \/ i = s.upd.a

LiveUpTo(s, i) == Cardinality({j \in 1..i : Live(s, j)})

Collect(s) ==
    IF \A i \in 1..Len(s.aws) : Live(s, i) THEN s ELSE
    [s EXCEPT
        !.aws = [k \in 1..LiveUpTo(s, Len(s.aws)) |->
                    s.aws[CHOOSE i \in 1..Len(s.aws) : Live(s, i) /\ LiveUpTo(s, i) = k]],
        !.awaiter = IF s.awaiter = 0 THEN 0 ELSE LiveUpTo(s, s.awaiter),
        !.fin.a = IF s.fin.a = 0 THEN 0 ELSE LiveUpTo(s, s.fin.a),
        !.can.a = IF s.can.a = 0 THEN 0 ELSE LiveUpTo(s, s.can.a),
        !.upd.a = IF s.upd.a = 0 THEN 0 ELSE LiveUpTo(s, s.upd.a)]

(* The fields after a handler, and the handler that ran *)
Assign(s, o) ==
    /\ driver' = s.driver
    /\ cfgSubs' = s.cfgSubs
    /\ stSubs' = s.stSubs
    /\ defSubs' = s.defSubs
    /\ status' = s.status
    /\ motors' = s.motors
    /\ left' = s.left
    /\ right' = s.right
    /\ awaiter' = s.awaiter
    /\ update_callback' = s.update_callback
    /\ target_angle' = s.target_angle
    /\ max_turn_wheel_speed' = s.max_turn_wheel_speed
    /\ max_turn_power' = s.max_turn_power
    /\ last_yaw_angle' = s.last_yaw_angle
    /\ sw' = s.sw
    /\ yaw' = s.yaw
    /\ aws' = s.aws
    /\ trace' = s.trace
    /\ exc' = s.exc
    /\ op' = o
    /\ fin' = s.fin
    /\ can' = s.can
    /\ upd' = s.upd
    /\ UNCHANGED appVars

Commit(s, o) == Assign(Collect(s), o)

IsMotorPort(p) == driver[p] \in Drivers

CanCreateAwaiter == Len(aws) < MaxAwaiters

AddLeftMotor ==
    \E p \in Ports :
        /\ IsMotorPort(p)
        /\ ~Contains(motors, p)
        /\ Count(cfgSubs[p], "drivetrain") < MaxSubs
        /\ Commit(add_left_motor(Cur, p), "add_left_motor")

AddRightMotor ==
    \E p \in Ports :
        /\ IsMotorPort(p)
        /\ ~Contains(motors, p)
        /\ Count(cfgSubs[p], "drivetrain") < MaxSubs
        /\ Commit(add_right_motor(Cur, p), "add_right_motor")

DrivetrainReset == Commit(reset(Cur), "reset")

SetSpeeds == Commit(set_speeds(Cur, 60, 60, NoneV), "set_speeds")

Move ==
    /\ CanCreateAwaiter
    /\ Commit(move(Cur, FullTurn, -FullTurn, NoneV, NoneV, NoneV), "move")

TurnImpl ==
    /\ CanCreateAwaiter
    /\ \E a \in TurnAngles, w \in WheelSpeeds :
        Commit(turn_impl(Cur, a, w, NoneV), "turn_impl")

RotationUnits == {"UNIT_ROT", "UNIT_SEC", "UNIT_TURN_ANGLE"}

SpeedUnits == {"UNIT_SPEED_RPM", "UNIT_SPEED_PWR", "UNIT_INVALID"}

DriveWith(ur, us) ==
    /\ CanCreateAwaiter
    /\ Commit(drive(Cur, "DIRECTION_FWD", 1, ur, 10, us), "drive")

Drive == \E ur \in RotationUnits, us \in SpeedUnits : DriveWith(ur, us)

TurnWith(ur, us) ==
    /\ CanCreateAwaiter
    /\ Commit(turn(Cur, "DIRECTION_LEFT", 2, ur, 1, us), "turn")

Turn == \E ur \in RotationUnits, us \in SpeedUnits : TurnWith(ur, us)

(* move() and turn_impl() while the hardware interface fails *)
HwFailures == {"command", "any"}

MoveHwFails ==
    /\ CanCreateAwaiter
    /\ \E f \in HwFailures :
        Commit(move([Cur EXCEPT !.failing = f], FullTurn, -FullTurn, NoneV, NoneV, NoneV),
               "move")

TurnImplHwFails ==
    /\ CanCreateAwaiter
    /\ \E f \in HwFailures, a \in TurnAngles, w \in WheelSpeeds :
        Commit(turn_impl([Cur EXCEPT !.failing = f], a, w, NoneV), "turn_impl")

StopRelease == Commit(stop_release(Cur), "stop_release")

(* The driver of a motor port reads a new status and calls its             *)
(* on_status_changed subscribers with the port                             *)
StatusEventOn(p, st) ==
    /\ IsMotorPort(p)
    /\ Commit(CallStatusChanged([Cur EXCEPT !.status[p] = st], p, 1), "status")

StatusEvent == \E p \in Ports, st \in MotorStatus : StatusEventOn(p, st)

(* The timer of a timed drive or turn expires: Timer(timeout, awaiter.finish) *)
TimerExpiresOn(a) ==
    /\ aws[a].timer = "armed"
    /\ Commit(AwaiterFinish([Cur EXCEPT !.aws[a].timer = "fired"], a), "timer")

TimerExpires == \E a \in 1..Len(aws) : TimerExpiresOn(a)

(* The timer thread was already past the point where Timer.cancel stops it *)
(* when the awaiter was cancelled: it calls awaiter.finish all the same    *)
LateTimerExpires ==
    /\ awaiter # 0
    /\ aws[awaiter].timer = "cancelled"
    /\ Commit(AwaiterFinish([Cur EXCEPT !.aws[awaiter].timer = "fired"], awaiter),
              "timer")

(* finish() on the timer thread and _cancel_awaiter() on the application  *)
(* thread, statement by statement.  The test-and-set of the awaiter's      *)
(* state is one step (the transition is serialized); the callbacks of the  *)
(* winner run after it.  The trace runs on from step to step.              *)
Running == [Cur EXCEPT !.trace = trace, !.exc = exc]

(* Variant: completion is not latched *)
Latched_never(s, a) == FALSE

Latched(s, a) == s.aws[a].state # "Pending"

Transition(s, a, to, ev) ==
    Emit([s EXCEPT !.aws[a].state = to], Event(ev, 0, s.aws[a].kind, "", <<>>))

Idle == [pc |-> "idle", a |-> 0]

Done == [pc |-> "done", a |-> 0]

TimerFires ==
    \E a \in 1..Len(aws) :
        /\ fin.pc = "idle"
        /\ aws[a].timer = "armed"
        /\ LET s == [Running EXCEPT !.aws[a].timer = "fired"]
           IN  IF Latched(s, a)
               THEN Commit([s EXCEPT !.fin = Done], "finish")
               ELSE Commit([Transition(s, a, "Finished", "finished")
                            EXCEPT !.fin = [pc |-> "callbacks", a |-> a]], "finish")

TimerRunsCallbacks ==
    /\ fin.pc = "callbacks"
    /\ Commit([RunCallbacks(Running, fin.a, aws[fin.a].onResult, 1) EXCEPT !.fin = Done],
              "finish")

AppCancelBegins ==
    /\ can.pc = "idle"
    /\ awaiter # 0
    /\ Commit([Running EXCEPT !.awaiter = 0, !.can = [pc |-> "cancel", a |-> awaiter]],
              "_cancel_awaiter")

AppCancelTransition ==
    /\ can.pc = "cancel"
    /\ IF Latched(Running, can.a)
       THEN Commit([Running EXCEPT !.can = Done], "_cancel_awaiter")
       ELSE Commit([Transition(Running, can.a, "Cancelled", "cancelled")
                    EXCEPT !.can.pc = "callbacks"], "_cancel_awaiter")

AppCancelCallbacks ==
    /\ can.pc = "callbacks"
    /\ Commit([RunCallbacks(Running, can.a, aws[can.a].onCancelled, 1) EXCEPT !.can = Done],
              "_cancel_awaiter")

(* The application thread calls move() while the timer thread is inside   *)
(* finish(), past the transition and before the callbacks                  *)
MoveMeanwhile ==
    /\ fin.pc = "callbacks"
    /\ CanCreateAwaiter
    /\ Commit(move(Running, FullTurn, -FullTurn, NoneV, NoneV, NoneV), "move")

(* The drivetrain is assembled before the first drive *)
Assembling == aws = <<>> /\ fin = Idle /\ can = Idle

(* A timed drive, started when no thread is inside the awaiter *)
TimedDrive ==
    /\ CanCreateAwaiter
    /\ fin.pc # "callbacks"
    /\ can.pc \in {"idle", "done"}
    /\ \A a \in 1..Len(aws) : aws[a].state # "Pending"
    /\ Commit([drive(Cur, "DIRECTION_FWD", 1, "UNIT_SEC", 10, "UNIT_SPEED_RPM")
               EXCEPT !.fin = Idle, !.can = Idle], "drive")

(* _update_turn on the status thread, statement by statement, while the   *)
(* application thread makes motion calls.  No lock is taken in the         *)
(* handler, so the other thread can run between any two of its statements. *)
Outside == [pc |-> "idle", a |-> 0, motor |-> 0]

(* callback = self._update_callback; callback(motor); awaiter = self._awaiter *)
UpdateTurnEnters ==
    \E p \in Ports, st \in MotorStatus :
        /\ upd = Outside
        /\ IsMotorPort(p)
        /\ Contains(StatusCallbacks(Cur, p), "drivetrain")
        /\ update_callback = "_update_turn"
        /\ Commit([Running EXCEPT !.status[p] = st,
                                  !.upd = [pc |-> "entered", a |-> awaiter, motor |-> p]],
                  "_update_turn")

(* The tests on the status and the yaw angle, up to the call that ends the turn *)
UpdateTurnDecides ==
    /\ upd.pc = "entered"
    /\ LET s == Running
           uninstalled == [s EXCEPT !.update_callback = "None"]
       IN  IF s.status[upd.motor] = "Blocked"
           THEN Commit([uninstalled EXCEPT !.upd.pc = "cancel"], "_update_turn")
           ELSE IF s.last_yaw_angle # s.yaw
                THEN LET s1 == [s EXCEPT !.last_yaw_angle = s.yaw, !.sw = 0]
                     IN  IF abs(s1.target_angle - s1.yaw) < 1
                         THEN Commit([s1 EXCEPT !.update_callback = "None",
                                                !.upd.pc = "finish"], "_update_turn")
                         ELSE Commit([_update_turn_speed(s1) EXCEPT !.upd = Outside],
                                     "_update_turn")
                ELSE IF s.sw > StallSeconds
                     THEN Commit([uninstalled EXCEPT !.upd.pc = "cancel"], "_update_turn")
                     ELSE Commit([s EXCEPT !.upd = Outside], "_update_turn")

(* _cancel(): awaiter.cancel of the awaiter read on entry, or stop_release *)
UpdateTurnCancels ==
    /\ upd.pc = "cancel"
    /\ Commit([(IF upd.a # 0 THEN AwaiterCancel(Running, upd.a) ELSE stop_release(Running))
               EXCEPT !.upd = Outside], "_update_turn")

(* _goal_reached(): awaiter.finish of the awaiter read on entry, or stop_release *)
UpdateTurnFinishes ==
    /\ upd.pc = "finish"
    /\ Commit([(IF upd.a # 0 THEN AwaiterFinish(Running, upd.a) ELSE stop_release(Running))
               EXCEPT !.upd = Outside], "_update_turn")

(* The caller cancels an awaiter it was given *)
CallerCancels ==
    \E a \in 1..Len(aws) :
        /\ aws[a].state = "Pending"
        /\ Commit(AwaiterCancel(Cur, a), "cancel")

(* The IMU reports another yaw angle *)
YawChanges ==
    \E y \in YawValues :
        /\ y # yaw
        /\ Commit([Cur EXCEPT !.yaw = y], "yaw")

(* Time passes: the stopwatch reads a later elapsed time *)
Tick ==
    \E e \in ElapsedValues :
        /\ e > sw
        /\ Commit([Cur EXCEPT !.sw = e], "tick")

ConfigureOn(p, config) == Commit(configure(Cur, p, config), "configure")

ConfigureWith(configs) ==
    \E p \in Ports, config \in configs : ConfigureOn(p, config)

(* A port is configured as a motor *)
ConfigureMotor == ConfigureWith(Drivers)

(* A port is configured with any configuration record, or with None *)
Configure == ConfigureWith({NoneV} \cup ConfigNames)

HandlerReset == Commit(PortHandler_reset(Cur, 1), "PortHandler.reset")

SubscribeConfigChanged ==
    \E p \in Ports :
        /\ ~Contains(cfgSubs[p], "observer")
        /\ Commit([Cur EXCEPT !.cfgSubs[p] = Append(@, "observer")],
                  "on_config_changed.add")

(* Any port, configured or not, is added to one side, also a second time; *)
(* no port is in both groups                                               *)
CanAdd(p) ==
    /\ Len(motors) < MaxMotors
    /\ Len(cfgSubs[p]) < MaxCallbacks
    /\ Len(StatusCallbacks(Cur, p)) < MaxCallbacks

AddLeftAny ==
    \E p \in Ports :
        /\ CanAdd(p)
        /\ ~Contains(right, p)
        /\ Commit(add_left_motor(Cur, p), "add_left_motor")

AddRightAny ==
    \E p \in Ports :
        /\ CanAdd(p)
        /\ ~Contains(left, p)
        /\ Commit(add_right_motor(Cur, p), "add_right_motor")

NextGroups ==
    \/ Configure
    \/ AddLeftAny
    \/ AddRightAny
    \/ DrivetrainReset
    \/ HandlerReset

SpecGroups == Init /\ [][NextGroups]_vars

(* A registry on its own: callbacks that return, and one that raises *)
Callbacks == {"observer", "logger", "raiser"}

RegistryAdd ==
    \E p \in Ports, cb \in Callbacks :
        /\ Len(cfgSubs[p]) < MaxCallbacks
        /\ Commit([Cur EXCEPT !.cfgSubs[p] = Append(@, cb)], "add")

RegistryRemoveOn(p, cb) == Commit(FunctionAggregator_remove(Cur, p, cb), "remove")

RegistryRemove == \E p \in Ports, cb \in Callbacks : RegistryRemoveOn(p, cb)

RegistryCallOn(p) == Commit(CallConfigChanged(Cur, p, NoneV, 1), "__call__")

RegistryCall == \E p \in Ports : RegistryCallOn(p)

NextRegistry ==
    \/ RegistryAdd
    \/ RegistryRemove
    \/ RegistryCall

SpecRegistry == Init /\ [][NextRegistry]_vars

(* RevvyApp: the input arrays written by the BLE callbacks *)

Channels == 0..NButtons
ButtonValues == BOOLEAN
AnalogValues == {0, 128, 255}

(* a list index below the length, as the callbacks registered for the *)
(* channels pass it                                                   *)
_updateAnalog(data, channel, value) ==
    IF channel < NAnalog THEN [data EXCEPT ![channel] = value] ELSE data

_updateButton(data, channel, value) ==
    IF channel < NAnalog THEN [data EXCEPT ![channel] = value] ELSE data

UpdateAnalogOn(channel, value) ==
    /\ updates < MaxUpdates
    /\ _analogData' = _updateAnalog(_analogData, channel, value)
    /\ updates' = updates + 1
    /\ UNCHANGED <<_buttonData, _missedKeepAlives, event, main, watch>>
    /\ UNCHANGED <<_stop, _isConnected>>
    /\ op' = "_updateAnalog"
    /\ UNCHANGED robotVars

UpdateButtonOn(channel, value) ==
    /\ updates < MaxUpdates
    /\ _buttonData' = _updateButton(_buttonData, channel, value)
    /\ updates' = updates + 1
    /\ UNCHANGED <<_analogData, _missedKeepAlives, event, main, watch>>
    /\ UNCHANGED <<_stop, _isConnected>>
    /\ op' = "_updateButton"
    /\ UNCHANGED robotVars

UpdateAnalog == \E channel \in Channels, value \in AnalogValues : UpdateAnalogOn(channel, value)

UpdateButton == \E channel \in Channels, value \in ButtonValues : UpdateButtonOn(channel, value)

NextInputs ==
    \/ UpdateAnalog
    \/ UpdateButton

SpecInputs == Init /\ [][NextInputs]_vars

(* RevvyApp: the keep-alive watchdog. handle runs on its own thread; the  *)
(* keep-alive callback runs on the thread of the BLE service and takes no *)
(* lock, so it can fall between the read and the store of                 *)
(* self._missedKeepAlives = self._missedKeepAlives + 1                    *)

(* what _checkKeepAlive decides from the counter it reads *)
_checkKeepAlive(m) ==
    IF m > MissedLimit THEN [ret |-> "False", store |-> FALSE]
    ELSE IF m >= 0 THEN [ret |-> "True", store |-> TRUE]
    ELSE [ret |-> "True", store |-> FALSE]

(* status = _retry(self._setupRobot) and the branch on it *)
SetupRobot ==
    /\ main.pc = "setup"
    /\ ~_stop
    /\ \E ok \in BOOLEAN :
          IF ok
          THEN /\ _missedKeepAlives' = -1
               /\ main' = [main EXCEPT !.pc = "wait"]
               /\ watch' = [ret |-> "None", seen |-> FALSE, since |-> 0]
          ELSE /\ watch' = [watch EXCEPT !.ret = "None"]
               /\ UNCHANGED <<_missedKeepAlives, main>>
    /\ UNCHANGED <<_buttonData, _analogData, event, updates>>
    /\ UNCHANGED <<_stop, _isConnected>>
    /\ op' = "_setupRobot"
    /\ UNCHANGED robotVars

_handleKeepAlive ==
    /\ _missedKeepAlives' = 0
    /\ event' = TRUE
    /\ watch' = [watch EXCEPT !.seen = TRUE, !.since = 0]
    /\ UNCHANGED <<_buttonData, _analogData, main, updates>>
    /\ UNCHANGED <<_stop, _isConnected>>
    /\ op' = "_handleKeepAlive"
    /\ UNCHANGED robotVars

(* self.event.wait(0.1) returns True: the packet is handled *)
PacketReceived ==
    /\ main.pc = "wait"
    /\ event
    /\ ~_stop
    /\ event' = FALSE
    /\ main' = [main EXCEPT !.comm_missing = FALSE]
    /\ watch' = [watch EXCEPT !.ret = "None"]
    /\ UNCHANGED <<_buttonData, _analogData, _missedKeepAlives, updates>>
    /\ UNCHANGED <<_stop, _isConnected>>
    /\ op' = "handle"
    /\ UNCHANGED robotVars

(* the wait timed out: _checkKeepAlive reads the counter, and returns *)
(* unless it has to store the incremented counter                     *)
CheckKeepAliveReads ==
    /\ main.pc = "wait"
    /\ ~event
    /\ LET r == _checkKeepAlive(_missedKeepAlives)
           n == IF watch.seen THEN watch.since + 1 ELSE 0
       IN  IF r.store
           THEN /\ main' = [main EXCEPT !.pc = "store", !.m = _missedKeepAlives]
                /\ watch' = [watch EXCEPT !.ret = "None", !.since = n]
           ELSE /\ main' = IF r.ret = "False"
                           THEN [main EXCEPT !.pc = "setup", !.comm_missing = TRUE]
                           ELSE main
                /\ watch' = [watch EXCEPT !.ret = r.ret, !.since = n]
    /\ UNCHANGED <<_buttonData, _analogData, _missedKeepAlives, event, updates>>
    /\ UNCHANGED <<_stop, _isConnected>>
    /\ op' = "_checkKeepAlive"
    /\ UNCHANGED robotVars

CheckKeepAliveStores ==
    /\ main.pc = "store"
    /\ _missedKeepAlives' = main.m + 1
    /\ main' = [main EXCEPT !.pc = "wait", !.m = 0]
    /\ watch' = [watch EXCEPT !.ret = "True"]
    /\ UNCHANGED <<_buttonData, _analogData, event, updates>>
    /\ UNCHANGED <<_stop, _isConnected>>
    /\ op' = "_checkKeepAlive"
    /\ UNCHANGED robotVars

(* the loops of handle end once _stop is set *)
HandleReturns ==
    /\ main.pc \in {"setup", "wait"}
    /\ _stop
    /\ main' = [main EXCEPT !.pc = "done"]
    /\ watch' = [watch EXCEPT !.ret = "None"]
    /\ UNCHANGED <<_buttonData, _analogData, _missedKeepAlives, event, updates>>
    /\ UNCHANGED <<_stop, _isConnected>>
    /\ op' = "handle"
    /\ UNCHANGED robotVars

(* startRevvy on its way out: app._stop = True; app.event.set() *)
Stop ==
    /\ ~_stop
    /\ _stop' = TRUE
    /\ event' = TRUE
    /\ UNCHANGED <<_buttonData, _analogData, _missedKeepAlives, main, watch, updates>>
    /\ UNCHANGED _isConnected
    /\ op' = "startRevvy"
    /\ UNCHANGED robotVars

_onConnectionChanged ==
    /\ \E is_connected \in BOOLEAN :
          /\ is_connected # _isConnected
          /\ _isConnected' = is_connected
    /\ UNCHANGED <<_buttonData, _analogData, _missedKeepAlives, event, main, watch>>
    /\ UNCHANGED <<updates, _stop>>
    /\ op' = "_onConnectionChanged"
    /\ UNCHANGED robotVars

CheckKeepAliveReturns ==
    \/ CheckKeepAliveReads /\ watch'.ret # "None"
    \/ CheckKeepAliveStores

NextWatchdog ==
    \/ SetupRobot
    \/ _handleKeepAlive
    \/ PacketReceived
    \/ CheckKeepAliveReads
    \/ CheckKeepAliveStores
    \/ HandleReturns
    \/ Stop
    \/ _onConnectionChanged

SpecWatchdog == Init /\ [][NextWatchdog]_vars

(* A registry with a callback that unsubscribes itself during the call *)
SelfRemoving == {"observer", "logger", "once"}

RegistryAddSelfRemoving ==
    \E p \in Ports, cb \in SelfRemoving :
        /\ Len(cfgSubs[p]) < MaxCallbacks
        /\ Commit([Cur EXCEPT !.cfgSubs[p] = Append(@, cb)], "add")

NextUnsubscribing ==
    \/ RegistryAddSelfRemoving
    \/ RegistryCall

SpecUnsubscribing == Init /\ [][NextUnsubscribing]_vars

(* The drivetrain on configured motor ports, every motion call; the IMU    *)
(* and the stopwatch are at rest                                           *)
Next ==
    \/ ConfigureMotor
    \/ AddLeftMotor
    \/ AddRightMotor
    \/ DrivetrainReset
    \/ SetSpeeds
    \/ Move
    \/ TurnImpl
    \/ Drive
    \/ Turn
    \/ StopRelease
    \/ StatusEvent
    \/ TimerExpires
    \/ CallerCancels

Spec == Init /\ [][Next]_vars

(* Position moves, continuous speeds and timed drives *)
NextMove ==
    \/ ConfigureMotor
    \/ AddLeftMotor
    \/ AddRightMotor
    \/ DrivetrainReset
    \/ SetSpeeds
    \/ Move
    \/ Drive
    \/ StopRelease
    \/ StatusEvent
    \/ TimerExpires
    \/ LateTimerExpires
    \/ CallerCancels

SpecMove == Init /\ [][NextMove]_vars

(* Motion calls during which the hardware interface fails *)
NextFail ==
    \/ ConfigureMotor
    \/ AddLeftMotor
    \/ AddRightMotor
    \/ DrivetrainReset
    \/ SetSpeeds
    \/ MoveHwFails
    \/ TurnImplHwFails
    \/ StopRelease
    \/ StatusEvent

SpecFail == Init /\ [][NextFail]_vars

AssembleConfigure == Assembling /\ ConfigureMotor

AssembleLeft == Assembling /\ AddLeftMotor

AssembleRight == Assembling /\ AddRightMotor

(* The timer thread and the application thread in one awaiter *)
NextRace ==
    \/ AssembleConfigure
    \/ AssembleLeft
    \/ AssembleRight
    \/ TimedDrive
    \/ TimerFires
    \/ TimerRunsCallbacks
    \/ AppCancelBegins
    \/ AppCancelTransition
    \/ AppCancelCallbacks

SpecRace == Init /\ [][NextRace]_vars

(* The timer thread finishing a timed drive against a new motion call *)
NextSupersede ==
    \/ AssembleConfigure
    \/ AssembleLeft
    \/ AssembleRight
    \/ TimedDrive
    \/ TimerFires
    \/ TimerRunsCallbacks
    \/ MoveMeanwhile

SpecSupersede == Init /\ [][NextSupersede]_vars

(* The status thread in _update_turn against motion calls of the           *)
(* application thread                                                      *)
NextUpdate ==
    \/ AssembleConfigure
    \/ AssembleLeft
    \/ AssembleRight
    \/ TurnImpl
    \/ StopRelease
    \/ YawChanges
    \/ UpdateTurnEnters
    \/ UpdateTurnDecides
    \/ UpdateTurnCancels
    \/ UpdateTurnFinishes

SpecUpdate == Init /\ [][NextUpdate]_vars

(* The angle-seeking turn, with the IMU and the stopwatch running *)
NextTurn ==
    \/ ConfigureMotor
    \/ AddLeftMotor
    \/ AddRightMotor
    \/ DrivetrainReset
    \/ TurnImpl
    \/ StopRelease
    \/ StatusEvent
    \/ CallerCancels
    \/ YawChanges
    \/ Tick

SpecTurn == Init /\ [][NextTurn]_vars

(* The port framework with its subscribers, without motion commands *)
NextPorts ==
    \/ Configure
    \/ HandlerReset
    \/ SubscribeConfigChanged
    \/ AddLeftMotor
    \/ AddRightMotor
    \/ DrivetrainReset
    \/ StatusEvent

SpecPorts == Init /\ [][NextPorts]_vars

----------------------------------------------------------------------------
(* Properties *)

Indices(tr, ev, sub) == {i \in 1..Len(tr) : tr[i].ev = ev /\ tr[i].sub = sub}

Has(tr, ev, sub) == Indices(tr, ev, sub) # {}

Transitions(tr, ev) == {i \in 1..Len(tr) : tr[i].ev = ev}

Releases(tr) == Indices(tr, "hw", "_apply_release")

(* Some release call of tr sends zero power to every motor of group *)
ReleasedAll(tr, group) ==
    \E i \in Releases(tr) :
        \A k \in 1..Len(group) :
            \E c \in 1..Len(tr[i].cmds) :
                /\ tr[i].cmds[c].port = group[k]
                /\ tr[i].cmds[c].kind = "power"
                /\ tr[i].cmds[c].v = 0

PendingAwaiters == {i \in 1..Len(aws) : aws[i].state = "Pending"}

HoldsPending(kind) ==
    /\ awaiter # 0
    /\ aws[awaiter].state = "Pending"
    /\ aws[awaiter].kind = kind

MotionCalls == {"set_speeds", "move", "turn_impl", "turn", "drive"}

(* C1: after any sequence of drivetrain calls and motor status events at   *)
(* most one awaiter created by the drivetrain is Pending, and it is the    *)
(* one the drivetrain holds; within a motion call the cancellation of the  *)
(* previous awaiter precedes every speed or position command of the call.  *)
C1_AtMostOnePending ==
    /\ Cardinality(PendingAwaiters) <= 1
    /\ \A i \in PendingAwaiters : awaiter = i
    /\ op \in MotionCalls =>
        \A i \in Transitions(trace, "cancelled"),
           j \in Indices(trace, "hw", "_apply_speeds") \cup Indices(trace, "hw", "move") :
            i < j

(* A motion call has superseded a Pending awaiter and holds a new one *)
C1_Witness ==
    /\ op \in {"move", "turn_impl"}
    /\ Transitions(trace, "cancelled") # {}
    /\ awaiter # 0
    /\ aws[awaiter].state = "Pending"

(* C2: the awaiter returned by move() enters Finished only in a state      *)
(* where every motor of the drivetrain has status GoalReached.             *)
C2_FinishedOnlyWhenAllReached ==
    Has(trace, "finished", "move") =>
        \A i \in 1..Len(motors) : status[motors[i]] = "GoalReached"

(* A move awaiter has just finished on a drivetrain with both sides manned *)
C2_Witness ==
    /\ op = "status"
    /\ Has(trace, "finished", "move")
    /\ Len(left) >= 1
    /\ Len(right) >= 1

(* C3: while the move() awaiter is Pending, a Blocked status event from a  *)
(* member motor cancels the awaiter and sends zero power to every motor of *)
(* the left and right groups.                                              *)
C3_BlockedCancelsMove ==
    [][\A p \in Ports :
        (/\ HoldsPending("move")
         /\ Contains(motors, p)
         /\ StatusEventOn(p, "Blocked"))
        => (/\ Has(trace', "cancelled", "move")
            /\ ReleasedAll(trace', left' \o right')
            /\ awaiter' # 0
            /\ aws'[awaiter'].state = "Cancelled")]_vars

(* A Blocked report has just cancelled a move on a two-sided drivetrain *)
C3_Witness ==
    /\ op = "status"
    /\ Has(trace, "cancelled", "move")
    /\ Len(left) >= 1
    /\ Len(right) >= 1
    /\ \E i \in 1..Len(motors) : status[motors[i]] = "Blocked"

(* C4: during a turn, every non-Blocked status event processed while       *)
(* |target - yaw| < 1 finishes the turn awaiter and releases all motors,   *)
(* also when the yaw equals the last observed yaw.                         *)
C4_FinishWithinOneDegree ==
    [][\A p \in Ports, st \in MotorStatus \ {"Blocked"} :
        (/\ HoldsPending("turn")
         /\ update_callback = "_update_turn"
         /\ Contains(motors, p)
         /\ abs(target_angle - yaw) < 1
         /\ StatusEventOn(p, st))
        => (/\ Has(trace', "finished", "turn")
            /\ ReleasedAll(trace', left' \o right'))]_vars

(* C5: during a turn, a non-Blocked status event processed while the yaw   *)
(* equals the last observed yaw cancels the awaiter and uninstalls the     *)
(* turn handler when more than 3 seconds have elapsed since the yaw last   *)
(* changed or the turn started, and does neither at 3 seconds or less.     *)
C5_StallCancelsAfterThreeSeconds ==
    [][\A p \in Ports, st \in MotorStatus \ {"Blocked"} :
        (/\ HoldsPending("turn")
         /\ update_callback = "_update_turn"
         /\ Contains(motors, p)
         /\ yaw = last_yaw_angle
         /\ StatusEventOn(p, st))
        => IF sw > StallSeconds
           THEN /\ Has(trace', "cancelled", "turn")
                /\ aws'[awaiter'].state = "Cancelled"
                /\ update_callback' = "None"
           ELSE /\ Transitions(trace', "cancelled") = {}
                /\ aws'[awaiter'].state = "Pending"
                /\ update_callback' = "_update_turn"]_vars

(* A turn short of its goal, with no motor Blocked, has been cancelled by  *)
(* the stall test                                                          *)
C5_Witness ==
    /\ op = "status"
    /\ Has(trace, "cancelled", "turn")
    /\ sw > StallSeconds
    /\ yaw = last_yaw_angle
    /\ abs(target_angle - yaw) >= 1
    /\ Len(motors) >= 1
    /\ \A i \in 1..Len(motors) : status[motors[i]] # "Blocked"

TurnSpeed == clip(Kp * (target_angle - yaw), -max_turn_wheel_speed, max_turn_wheel_speed)

(* C6: every speed command of a turn applies -p to each left motor and +p  *)
(* to each right motor, p = clip(10 * (target - yaw), -wheel_speed,        *)
(* wheel_speed), and for wheel_speed >= 0 its magnitude is at most         *)
(* wheel_speed.                                                            *)
C6_TurnSpeedCommand ==
    \A i \in Indices(trace, "hw", "_apply_speeds") :
        \A c \in 1..Len(trace[i].cmds) :
            LET cmd == trace[i].cmds[c]
            IN  /\ cmd.kind = "speed"
                /\ Contains(left, cmd.port) => cmd.v = -TurnSpeed
                /\ Contains(right, cmd.port) => cmd.v = TurnSpeed
                /\ max_turn_wheel_speed >= 0 => abs(cmd.v) <= max_turn_wheel_speed

(* A status event during a turn has commanded a saturated, non-zero speed  *)
(* to a left and a right motor                                             *)
C6_Witness ==
    /\ op = "status"
    /\ max_turn_wheel_speed > 0
    /\ \E i \in Indices(trace, "hw", "_apply_speeds") :
        /\ \E c \in 1..Len(trace[i].cmds) :
            Contains(left, trace[i].cmds[c].port) /\ trace[i].cmds[c].v # 0
        /\ \E c \in 1..Len(trace[i].cmds) :
            Contains(right, trace[i].cmds[c].port)
                /\ abs(trace[i].cmds[c].v) = max_turn_wheel_speed

(* C7: whenever an awaiter of the drivetrain becomes Cancelled, the        *)
(* release command (zero power to all motors of a drivetrain with motors   *)
(* on both sides) is issued exactly once by the handler that cancels it.   *)
C7_ReleaseExactlyOnce ==
    (Transitions(trace, "cancelled") # {} /\ Len(left) >= 1 /\ Len(right) >= 1) =>
        /\ Cardinality(Releases(trace)) = 1
        /\ ReleasedAll(trace, left \o right)

ConfigChanged(tr) == Transitions(tr, "config_changed")

(* C8: every configure() that completes programs the port type exactly     *)
(* once, after the config-changed call carrying None and its notifications *)
(* and before the config-changed call carrying the new config and its      *)
(* notifications.                                                          *)
C8_PortTypeProgrammedOnceBetween ==
    (op = "configure" /\ exc = "none") =>
        /\ Cardinality(Transitions(trace, "set_port_type")) = 1
        /\ Cardinality(ConfigChanged(trace)) = 2
        /\ \E a, b \in ConfigChanged(trace), k \in Transitions(trace, "set_port_type") :
            /\ a < k
            /\ k < b
            /\ trace[a].cfg = NoneV
            /\ trace[b].cfg = trace[k].cfg
                \/ (trace[b].cfg = NoneV /\ trace[k].cfg = "Default")
            /\ \A n \in Transitions(trace, "notify") :
                \/ n < k /\ trace[n].cfg = NoneV
                \/ n > b /\ trace[n].cfg = trace[b].cfg

(* A configure() with a real driver has completed and its subscriber was   *)
(* notified on both sides of the programming                               *)
C8_Witness ==
    /\ op = "configure"
    /\ exc = "none"
    /\ Cardinality(Transitions(trace, "notify")) = 2
    /\ \E k \in Transitions(trace, "set_port_type") : trace[k].cfg \in Drivers

NotifiedConfigs(sub) ==
    LET Mine(e) == e.ev = "notify" /\ e.sub = sub
    IN  SelectSeq(trace, Mine)

(* C9: in every configure() call whose configuration resolves, every       *)
(* subscriber of the port's config-changed registry is notified exactly    *)
(* twice, first with None and then with the new config, also when the      *)
(* subscriber is the drivetrain.                                           *)
C9_EverySubscriberNotifiedTwice ==
    (op = "configure" /\ exc # "KeyError") =>
        LET p == trace[1].port
        IN  \A sub \in {cfgSubs[p][i] : i \in 1..Len(cfgSubs[p])} :
                LET n == Count(cfgSubs[p], sub)
                    got == NotifiedConfigs(sub)
                IN  /\ Len(got) = 2 * n
                    /\ \A i \in 1..n : got[i].cfg = NoneV
                    /\ \A i \in (n + 1)..(2 * n) :
                        \A b \in ConfigChanged(trace) : b > 1 => got[i].cfg = trace[b].cfg

(* C10: after a configure() that fails because the driver name cannot be   *)
(* resolved, the port is unconfigured: bound to the null driver or to      *)
(* nothing, not to the driver it had before.                               *)
C10_FailedConfigureLeavesNullDriver ==
    (op = "configure" /\ exc = "KeyError") =>
        driver[trace[1].port] \in {"Default", "None"}

(* C11: in every reachable state, from construction on, every port is      *)
(* bound to a real driver object (a configured driver or the null driver), *)
(* never to nothing.                                                       *)
C11_DriverNeverNull == \A p \in Ports : driver[p] # "None"

NoSubscriptions ==
    /\ defSubs = <<>>
    /\ \A p \in Ports : cfgSubs[p] = <<>> /\ stSubs[p] = <<>>

(* C12: after PortHandler.reset() called twice in succession, from any     *)
(* reachable configuration, every port is bound to the null driver and no  *)
(* status-changed or config-changed subscription remains.                  *)
C12_ResetTwiceLeavesNothing ==
    [][(op = "PortHandler.reset" /\ HandlerReset) =>
        /\ \A p \in Ports : driver'[p] = "Default"
        /\ NoSubscriptions']_vars

Without(seq, x) ==
    LET Other(y) == y # x
    IN  SelectSeq(seq, Other)

(* C13: when a port that is a member of the drivetrain is reconfigured,    *)
(* afterwards the port is in none of the combined, left and right groups   *)
(* and the other members are where they were.                              *)
C13_ReconfiguredMemberRemoved ==
    [][\A p \in Ports, config \in {NoneV} \cup ConfigNames :
        (Contains(motors, p) /\ ConfigureOn(p, config)) =>
            /\ ~Contains(motors', p)
            /\ ~Contains(left', p)
            /\ ~Contains(right', p)
            /\ motors' = Without(motors, p)
            /\ left' = Without(left, p)
            /\ right' = Without(right, p)]_vars

(* A member port has been reconfigured: the drivetrain was notified in     *)
(* both rounds, the port is gone and another member is left                *)
C13_Witness ==
    /\ op = "configure"
    /\ Cardinality({i \in Indices(trace, "notify", "drivetrain") :
                        trace[i].port = trace[1].port}) = 2
    /\ ~Contains(motors, trace[1].port)
    /\ Len(motors) >= 1

(* C14: after DifferentialDrivetrain.reset(), from any reachable state, no *)
(* awaiter is Pending, the combined, left and right groups are empty, and  *)
(* no port has the drivetrain's status-changed or config-changed handler   *)
(* in its registries.                                                      *)
C14_ResetUnsubscribesEverywhere ==
    op = "reset" =>
        /\ PendingAwaiters = {}
        /\ motors = <<>>
        /\ left = <<>>
        /\ right = <<>>
        /\ ~Contains(defSubs, "drivetrain")
        /\ \A p \in Ports :
            ~Contains(cfgSubs[p], "drivetrain") /\ ~Contains(stSubs[p], "drivetrain")

(* C15: after set_speeds(), with no awaiter held, a Blocked status event   *)
(* from a member motor sends zero power to every motor of the left and     *)
(* right groups and raises no error.                                       *)
C15_BlockedStopsSetSpeeds ==
    [][\A p \in Ports :
        (/\ update_callback = "_update_move"
         /\ awaiter = 0
         /\ Contains(motors, p)
         /\ StatusEventOn(p, "Blocked"))
        => (/\ ReleasedAll(trace', left' \o right')
            /\ exc' = "none")]_vars

(* A Blocked report has stopped a two-sided drivetrain that ran at set     *)
(* speeds without an awaiter                                               *)
C15_Witness ==
    /\ op = "status"
    /\ update_callback = "_update_move"
    /\ awaiter = 0
    /\ Transitions(trace, "cancelled") = {}
    /\ ReleasedAll(trace, left \o right)
    /\ Len(left) >= 1
    /\ Len(right) >= 1
    /\ \E i \in 1..Len(motors) : status[motors[i]] = "Blocked"

(* The last call of the handler was a speed or position command that the   *)
(* hardware interface failed                                               *)
CommandFailed(tr) ==
    /\ tr # <<>>
    /\ tr[Len(tr)].ev = "hw_failed"
    /\ tr[Len(tr)].sub # "_apply_release"

FailedCallHoldsAwaiter ==
    (op \in {"move", "turn_impl"} /\ CommandFailed(trace)) =>
        /\ exc = "CommunicationError"
        /\ awaiter # 0
        /\ aws[awaiter].state = "Pending"
        /\ aws[awaiter].kind = (IF op = "move" THEN "move" ELSE "turn")

HeldPendingCancelled ==
    /\ awaiter # 0
    /\ aws[awaiter].state = "Pending"
    /\ Transitions(trace', "cancelled") # {}

(* C16: when the hardware interface fails the command of move() or         *)
(* turn_impl(), the error reaches the caller and the awaiter the call      *)
(* installed stays Pending and held; it is cancelled only by a later       *)
(* stop_release, reset or motion call.                                     *)
C16_FailedCallKeepsAwaiter ==
    [][/\ FailedCallHoldsAwaiter'
       /\ HeldPendingCancelled => op' \in {"stop_release", "reset"} \cup MotionCalls]_vars

(* C16, amended: as above, but the awaiter is also cancelled by a Blocked  *)
(* status event from a motor whose status registry holds the drivetrain's  *)
(* handler.                                                                *)
C16_FailedCallKeepsAwaiterUntilEnded ==
    [][/\ FailedCallHoldsAwaiter'
       /\ HeldPendingCancelled =>
            \/ op' \in {"stop_release", "reset"} \cup MotionCalls
            \/ \E p \in Ports :
                  /\ StatusEventOn(p, "Blocked")
                  /\ Contains(StatusCallbacks(Cur, p), "drivetrain")]_vars

(* The position command of a move() on a two-sided drivetrain has failed   *)
(* and the awaiter of the call is held, Pending                            *)
C16_Witness ==
    /\ op = "move"
    /\ exc = "CommunicationError"
    /\ CommandFailed(trace)
    /\ HoldsPending("move")
    /\ Len(left) >= 1
    /\ Len(right) >= 1

(* In the handler that cancels a timed awaiter the timer is cancelled      *)
(* after the transition and before every release                           *)
TimerCancelledBeforeRelease ==
    \A i \in Indices(trace, "cancelled", "timer") :
        /\ \E r \in Releases(trace) : r > i
        /\ \E c \in Transitions(trace, "timer_cancel") :
            c > i /\ \A r \in Releases(trace) : r > i => c < r

(* C17: when the awaiter of a timed drive or turn is cancelled, the timer  *)
(* is cancelled before the release command is issued, and a timer expiry   *)
(* on a terminal awaiter issues no release and leaves its state as it was. *)
C17_TimerCancelledWithAwaiter ==
    [][/\ TimerCancelledBeforeRelease'
       /\ LateTimerExpires =>
            /\ trace' = <<>>
            /\ awaiter' # 0
            /\ aws'[awaiter'].state = aws[awaiter].state
       /\ \A a \in 1..Len(aws) :
            (aws[a].state # "Pending" /\ TimerExpiresOn(a)) =>
                /\ trace' = <<>>
                /\ a = awaiter => aws'[awaiter'].state = aws[a].state]_vars

(* The timer of a cancelled timed drive has expired late on a drivetrain   *)
(* with motors on both sides                                               *)
C17_Witness ==
    /\ op = "timer"
    /\ awaiter # 0
    /\ aws[awaiter].kind = "timer"
    /\ aws[awaiter].state = "Cancelled"
    /\ aws[awaiter].timer = "fired"
    /\ Len(left) >= 1
    /\ Len(right) >= 1

(* C18: once the awaiter of a move, turn or timed drive has become         *)
(* terminal through a motor status event or the timer, the drivetrain      *)
(* holds no awaiter.                                                       *)
C18_TerminalAwaiterNotHeld ==
    (/\ op \in {"status", "timer"}
     /\ Transitions(trace, "finished") \cup Transitions(trace, "cancelled") # {})
    => awaiter = 0


(* Both threads have returned: the timer thread from finish, the           *)
(* application thread from _cancel_awaiter on the same awaiter             *)
BothReturned == fin.pc = "done" /\ can.pc = "done"

TimerTransitions ==
    Indices(trace, "finished", "timer") \cup Indices(trace, "cancelled", "timer")

(* C19: when the timer thread finishes and the application thread cancels  *)
(* the same awaiter concurrently, exactly one of the two transitions takes *)
(* effect, only the callbacks of that transition run, and each of them     *)
(* runs at most once.                                                      *)
C19_ExactlyOneTransitionWins ==
    /\ Cardinality(TimerTransitions) <= 1
    /\ Cardinality(Releases(trace)) <= Cardinality(TimerTransitions)
    /\ Cardinality(Transitions(trace, "timer_cancel"))
           <= Cardinality(Indices(trace, "cancelled", "timer"))
    /\ BothReturned =>
          /\ Cardinality(TimerTransitions) = 1
          /\ Cardinality(Releases(trace)) = 1
          /\ Cardinality(Transitions(trace, "timer_cancel"))
                 = Cardinality(Indices(trace, "cancelled", "timer"))

(* The timer thread won while the application thread was cancelling *)
C19_Witness ==
    /\ BothReturned
    /\ Has(trace, "finished", "timer")
    /\ Len(left) >= 1
    /\ Len(right) >= 1


On(tr, ev, p) == {i \in 1..Len(tr) : tr[i].ev = ev /\ tr[i].port = p}

Before(A, B) == \A i \in A, j \in B : i < j

(* The config-changed calls of port p in tr: the detach call is the first, *)
(* the attach call the second                                              *)
Detach(tr, p) ==
    {i \in On(tr, "config_changed", p) : \A j \in On(tr, "config_changed", p) : i <= j}

Attach(tr, p) == On(tr, "config_changed", p) \ Detach(tr, p)

(* C20: within one configure call the old driver is torn down, then the    *)
(* port type is programmed, then the new driver's on_port_type_set hook    *)
(* runs, then the new driver is bound; the detach notification comes       *)
(* before the teardown and the binding, the attach notification after the  *)
(* hook and the binding of the driver the port then holds.                 *)
C20_ConfigureStepsInOrder ==
    [][\A p \in Ports, config \in {NoneV} \cup ConfigNames :
          ConfigureOn(p, config) =>
              LET U == On(trace', "uninitialize", p)
                  T == On(trace', "set_port_type", p)
                  H == On(trace', "on_port_type_set", p)
                  B == On(trace', "bind", p)
              IN  /\ Cardinality(Detach(trace', p)) = 1
                  /\ Before(Detach(trace', p), U \cup T \cup H \cup B)
                  /\ Before(U, T)
                  /\ Before(T, H)
                  /\ Before(H, B)
                  /\ Before(U \cup T \cup H \cup B, Attach(trace', p))
                  /\ \A u \in U : trace'[u].cfg = driver[p]
                  /\ \A b \in B : trace'[b].cfg = driver'[p]
                  /\ Cardinality(Attach(trace', p)) <= 1
                  /\ Attach(trace', p) # {} =>
                        /\ Cardinality(T) = 1
                        /\ Cardinality(H) = 1
                        /\ Cardinality(B) = 1
                        /\ Cardinality(U) = (IF driver[p] # "None" THEN 1 ELSE 0)]_vars

(* A configured motor port has been configured again: the old driver was   *)
(* torn down and the attach notification went out                          *)
C20_Witness ==
    /\ op = "configure"
    /\ exc = "none"
    /\ \E p \in Ports :
        /\ \E u \in On(trace, "uninitialize", p) : trace[u].cfg \in Drivers
        /\ \E b \in On(trace, "bind", p) : trace[b].cfg \in Drivers
        /\ Attach(trace, p) # {}
        /\ Has(trace, "notify", "observer")


(* The subscribers the last handler called, in call order *)
Notified == [i \in 1..Len(trace) |-> trace[i].sub]

(* The callbacks of registry cbs up to and including the first that raises *)
UpToFirstRaiser(cbs) ==
    IF Contains(cbs, "raiser") THEN SubSeq(cbs, 1, IndexOf(cbs, "raiser", 1)) ELSE cbs

(* C21: invoking a registry calls its callbacks in subscription order,     *)
(* each once per subscription, up to the first one that raises, whose      *)
(* error reaches the invoker; removing a callback that is not subscribed   *)
(* raises nothing and leaves the registry as it was.                       *)
C21_RegistryCallsInOrder ==
    [][/\ \A p \in Ports :
            RegistryCallOn(p) =>
                /\ Notified' = UpToFirstRaiser(cfgSubs[p])
                /\ cfgSubs' = cfgSubs
                /\ exc' = (IF Contains(cfgSubs[p], "raiser") THEN "CallbackError" ELSE "none")
       /\ \A p \in Ports, cb \in Callbacks :
            (RegistryRemoveOn(p, cb) /\ ~Contains(cfgSubs[p], cb)) =>
                /\ cfgSubs' = cfgSubs
                /\ exc' = "none"]_vars

(* A registry with a callback subscribed twice and then a raiser followed  *)
(* by another callback has been invoked                                    *)
C21_Witness ==
    /\ op = "__call__"
    /\ exc = "CallbackError"
    /\ \E p \in Ports :
        /\ Len(cfgSubs[p]) = 3
        /\ cfgSubs[p][1] = "observer"
        /\ cfgSubs[p][2] = "raiser"
        /\ Len(Notified) = 2


(* C22: configure_port with a driver name that is not registered fails     *)
(* with UnknownDriverError, without programming the port type and without  *)
(* running an on_port_type_set hook.                                       *)
C22_UnknownDriverFails ==
    [][\A p \in Ports, config \in ConfigNames \ Drivers :
          (ConfigureOn(p, config) /\ exc' # "ValueError") =>
              /\ exc' = "UnknownDriverError"
              /\ On(trace', "set_port_type", p) = {}
              /\ On(trace', "on_port_type_set", p) = {}]_vars


(* C23: with the status thread and the application thread interleaved,     *)
(* whenever no status event is being handled and the drivetrain holds a    *)
(* Pending turn awaiter, the turn update handler is installed.             *)
C23_PendingTurnHasHandler ==
    (upd = Outside /\ HoldsPending("turn")) => update_callback = "_update_turn"


MotionCommands(tr) ==
    {i \in 1..Len(tr) : tr[i].ev = "hw" /\ tr[i].sub \in {"move", "_apply_speeds"}}

(* C24: once a new motion call has sent its motor command, no release      *)
(* caused by the terminal transition of the awaiter it superseded is sent: *)
(* no release follows a motor command that followed the transition.        *)
C24_NoReleaseAfterNewCommand ==
    motors # <<>> =>
        \A i \in Transitions(trace, "finished") \cup Transitions(trace, "cancelled") :
            \A j \in MotionCommands(trace) :
                \A k \in Releases(trace) : ~(i < j /\ j < k)


(* The drivetrain still references the awaiter of a turn that has ended *)
HoldsEndedTurn ==
    /\ awaiter # 0
    /\ aws[awaiter].kind = "turn"
    /\ aws[awaiter].state # "Pending"

(* C25: once the awaiter of a turn is terminal, also when the caller       *)
(* cancelled it through the awaiter itself, a later motor status event     *)
(* sends no speed command for that turn.                                   *)
C25_EndedTurnSendsNoSpeed ==
    [][(StatusEvent /\ HoldsEndedTurn /\ motors # <<>>) =>
          Indices(trace', "hw", "_apply_speeds") = {}]_vars


(* C26: while the drivetrain holds a Pending turn awaiter, a Blocked       *)
(* status event from a member motor cancels the awaiter without an         *)
(* exception, uninstalls the turn update handler and sends zero power to   *)
(* every motor, whatever the yaw angle is.                                 *)
C26_BlockedCancelsTurn ==
    [][\A p \in Ports :
          (StatusEventOn(p, "Blocked") /\ Contains(motors, p) /\ HoldsPending("turn")) =>
              /\ exc' = "none"
              /\ Has(trace', "cancelled", "turn")
              /\ aws'[awaiter'].state = "Cancelled"
              /\ update_callback' = "None"
              /\ Cardinality(Releases(trace')) = 1
              /\ ReleasedAll(trace', left \o right)
              /\ Indices(trace', "hw", "_apply_speeds") = {}]_vars

(* A Blocked report has cancelled the turn of a two-sided drivetrain while *)
(* the yaw angle had changed and was off the target                        *)
C26_Witness ==
    /\ op = "status"
    /\ Has(trace, "cancelled", "turn")
    /\ yaw # last_yaw_angle
    /\ abs(target_angle - yaw) >= 1
    /\ Len(left) >= 1
    /\ Len(right) >= 1


(* The ports that release call r of tr commands *)
ReleasedPorts(tr, r) == {tr[r].cmds[c].port : c \in 1..Len(tr[r].cmds)}

Members == {motors[i] : i \in 1..Len(motors)}

(* C27: a config change that removes a member motor while a move awaiter   *)
(* is Pending leaves the awaiter Pending and held; at a later status event *)
(* that is not Blocked the awaiter finishes exactly when all remaining     *)
(* members report GoalReached, and the release of that transition goes to  *)
(* the remaining members only.                                             *)
C27_RemovalKeepsMoveAwaiter ==
    [][/\ \A p \in Ports, config \in Drivers :
            (ConfigureOn(p, config) /\ Contains(motors, p) /\ HoldsPending("move")) =>
                /\ HoldsPending("move")'
                /\ Transitions(trace', "cancelled") \cup Transitions(trace', "finished") = {}
                /\ Releases(trace') = {}
                /\ ~Contains(motors', p)
       /\ \A p \in Ports, st \in MotorStatus \ {"Blocked"} :
            (/\ StatusEventOn(p, st)
             /\ Contains(StatusCallbacks(Cur, p), "drivetrain")
             /\ HoldsPending("move")) =>
                /\ Has(trace', "finished", "move")
                       <=> \A m \in Members : status'[m] = "GoalReached"
                /\ \A r \in Releases(trace') : ReleasedPorts(trace', r) = Members]_vars

(* A member of a two-motor drivetrain has just been removed by a config    *)
(* change while the move awaiter is Pending                                *)
C27_Witness ==
    /\ op = "configure"
    /\ HoldsPending("move")
    /\ Len(motors) = 1
    /\ \E p \in Ports : Has(trace, "notify", "drivetrain") /\ trace[1].port = p /\ ~Contains(motors, p)


DriveUnitsInvalid(ur, us) ==
    ur \notin {"UNIT_ROT", "UNIT_SEC"} \/ us \notin {"UNIT_SPEED_RPM", "UNIT_SPEED_PWR"}

TurnUnitsInvalid(ur, us) ==
    ur \notin {"UNIT_SEC", "UNIT_TURN_ANGLE"} \/ us \notin {"UNIT_SPEED_RPM", "UNIT_SPEED_PWR"}

ArmedTimers(list) == Cardinality({a \in 1..Len(list) : list[a].timer = "armed"})

(* The call that ended in s was rejected: no motor command, no awaiter     *)
(* created, held or Pending, no timer started, and the awaiter held before *)
(* the call cancelled                                                      *)
RejectedAfterCancel(s) ==
    /\ s.exc = "ValueError"
    /\ MotionCommands(s.trace) = {}
    /\ Transitions(s.trace, "hw_failed") = {}
    /\ s.awaiter = 0
    /\ Len(s.aws) = Len(aws)
    /\ \A a \in 1..Len(s.aws) : s.aws[a].state # "Pending"
    /\ ArmedTimers(s.aws) <= ArmedTimers(aws)
    /\ (awaiter # 0 /\ aws[awaiter].state = "Pending") =>
          /\ Cardinality(Transitions(s.trace, "cancelled")) = 1
          /\ Cardinality(Releases(s.trace)) = 1

(* C28: in every state, drive() and turn() with an unrecognised rotation   *)
(* or speed unit raise the invalid-unit error (ValueError) without sending *)
(* a speed or position command and without installing an awaiter or        *)
(* starting a timer, after having cancelled the outstanding awaiter.       *)
C28_InvalidUnitRejected ==
    \A ur \in RotationUnits, us \in SpeedUnits :
        /\ DriveUnitsInvalid(ur, us) =>
              RejectedAfterCancel(drive(Cur, "DIRECTION_FWD", 1, ur, 10, us))
        /\ TurnUnitsInvalid(ur, us) =>
              RejectedAfterCancel(turn(Cur, "DIRECTION_LEFT", 2, ur, 1, us))

(* drive() with an invalid unit has cancelled the Pending awaiter of a     *)
(* two-sided drivetrain                                                    *)
C28_Witness ==
    /\ op = "drive"
    /\ exc = "ValueError"
    /\ Transitions(trace, "cancelled") # {}
    /\ ReleasedAll(trace, left \o right)
    /\ Len(left) >= 1
    /\ Len(right) >= 1


(* C29: as long as no port is in both side groups, after every add, reset  *)
(* and config change the combined group holds each port as many times as   *)
(* the left and the right group together.                                  *)
C29_CombinedGroupIsLeftPlusRight ==
    \A p \in Ports : Count(motors, p) = Count(left, p) + Count(right, p)

(* A config change has removed one of the two entries of a port of the     *)
(* left group, and the right group has a motor                             *)
C29_Witness ==
    /\ op = "configure"
    /\ Len(right) >= 1
    /\ \E p \in Ports :
        /\ trace[1].port = p
        /\ Has(trace, "notify", "drivetrain")
        /\ Count(left, p) = 1
        /\ Count(motors, p) = 1


(* The status-changed subscribers seen through port q: those of the driver *)
(* the port is bound to                                                    *)
ObservedStatusSubs(q) == IF driver[q] = "None" THEN <<>> ELSE StatusCallbacks(Cur, q)

(* C30: subscribing to the status-changed event of one port, or            *)
(* reconfiguring it, leaves the status-changed subscribers seen through    *)
(* every other port as they were.                                          *)
C30_StatusSubscriptionsIndependent ==
    [][\A p \in Ports :
          (\/ \E config \in {NoneV} \cup ConfigNames : ConfigureOn(p, config)
           \/ Commit(add_left_motor(Cur, p), "add_left_motor")
           \/ Commit(add_right_motor(Cur, p), "add_right_motor")) =>
              \A q \in Ports \ {p} : ObservedStatusSubs(q)' = ObservedStatusSubs(q)]_vars


(* C31: when a callback unsubscribes itself while the registry is being    *)
(* invoked, every callback that remains subscribed is called once per      *)
(* subscription in that invocation.                                        *)
C31_RemainingSubscribersCalled ==
    [][\A p \in Ports :
          RegistryCallOn(p) =>
              \A cb \in SelfRemoving :
                  Contains(cfgSubs'[p], cb) =>
                      Cardinality(Indices(trace', "notify", cb)) = Count(cfgSubs'[p], cb)]_vars


(* C32: _checkKeepAlive returns False exactly on the fifth timeout check   *)
(* after the last keep-alive; before the first keep-alive after the        *)
(* initialisation it never returns False; every keep-alive received sets   *)
(* the counter to 0.                                                       *)
C32_LossOnFifthCheck ==
    [][/\ CheckKeepAliveReturns =>
             (watch'.ret = "False" <=> (watch'.seen /\ watch'.since = MissedLimit + 2))
       /\ _handleKeepAlive => _missedKeepAlives' = 0]_vars


(* C33: _updateButton stores the value for every button channel 0..31 and  *)
(* _updateAnalog for every analog channel 0..9, each leaving every other   *)
(* channel and the other array as they were; a channel out of range        *)
(* changes nothing.                                                        *)
C33_UpdateStoresValidChannel ==
    [][\A channel \in Channels :
          /\ \A value \in ButtonValues :
                UpdateButtonOn(channel, value) =>
                    /\ _analogData' = _analogData
                    /\ _buttonData' = IF channel < NButtons
                                      THEN [_buttonData EXCEPT ![channel] = value]
                                      ELSE _buttonData
          /\ \A value \in AnalogValues :
                UpdateAnalogOn(channel, value) =>
                    /\ _buttonData' = _buttonData
                    /\ _analogData' = IF channel < NAnalog
                                      THEN [_analogData EXCEPT ![channel] = value]
                                      ELSE _analogData]_vars

====
